---------------------------- MODULE Spec2Model ----------------------------
(***************************************************************************)
(* CRAM Demand: the Recommendation Gateway (api/recommend/index.js) and    *)
(* the Interactive Form (web/app/page.tsx) as state machines.              *)
(*                                                                         *)
(* A JavaScript string is a sequence of chunks (a chunk is a character or  *)
(* an opaque run of characters); concatenation is \o and "" is << >>.      *)
(* A JavaScript value is a record with exactly one field, whose name is    *)
(* the value's type.                                                       *)
(***************************************************************************)
EXTENDS Integers, Sequences, FiniteSets, TLC

(***************************************************************************)
(* JavaScript values                                                       *)
(***************************************************************************)
Undefined == [undef |-> TRUE]
JNull == [null |-> TRUE]
JBool(b) == [bool |-> b]
JNum(n) == [num |-> n]
JStr(s) == [str |-> s]
JArr(a) == [arr |-> a]
JObj(es) == [obj |-> es]

IsUndef(v) == DOMAIN v = {"undef"}
IsNull(v) == DOMAIN v = {"null"}
IsBool(v) == DOMAIN v = {"bool"}
IsNum(v) == DOMAIN v = {"num"}
IsStr(v) == DOMAIN v = {"str"}
IsArr(v) == DOMAIN v = {"arr"}
IsObj(v) == DOMAIN v = {"obj"}

\* A one-chunk string, and an object entry with a one-chunk key.
S(c) == JStr(<<c>>)
E(k, v) == [k |-> <<k>>, v |-> v]

\* F(v), with v evaluated once (a LET definition is evaluated at each use).
Let(v, F(_)) == CHOOSE r \in {F(x) : x \in {v}} : TRUE

\* ToBoolean: undefined, null, false, 0 and "" are falsy.
Truthy(v) ==
  CASE IsUndef(v) -> FALSE
    [] IsNull(v) -> FALSE
    [] IsBool(v) -> v.bool
    [] IsNum(v) -> v.num # 0
    [] IsStr(v) -> v.str # << >>
    [] OTHER -> TRUE

\* a || b
OrElse(a, b) == IF Truthy(a) THEN a ELSE b

HasKey(es, k) == \E i \in 1..Len(es) : es[i].k = k
KeyIndex(es, k) == CHOOSE i \in 1..Len(es) : es[i].k = k
Keys(v) == IF IsObj(v) THEN {v.obj[i].k : i \in 1..Len(v.obj)} ELSE {}

\* v?.k for a string key k: undefined on null and undefined, the own property
\* of an object, undefined on everything else.
Get(v, k) ==
  IF IsObj(v) /\ HasKey(v.obj, <<k>>) THEN v.obj[KeyIndex(v.obj, <<k>>)].v
  ELSE Undefined

\* v?.[0]
Get0(v) ==
  CASE IsArr(v) /\ Len(v.arr) > 0 -> v.arr[1]
    [] IsStr(v) /\ Len(v.str) > 0 -> JStr(<<v.str[1]>>)
    [] OTHER -> Undefined

\* obj[k] = v: an existing key keeps its place, a new key goes last.
PutEntry(es, k, v) ==
  IF HasKey(es, k)
  THEN [es EXCEPT ![KeyIndex(es, k)] = [k |-> k, v |-> v]]
  ELSE Append(es, [k |-> k, v |-> v])

(***************************************************************************)
(* JSON.parse and JSON.stringify over chunk strings                        *)
(***************************************************************************)
Quote == "\""
Backslash == "\\"
WsChunks == {" ", "\n", "\t"}
DigitChunks == {"0", "1", "2", "3", "4", "5", "6", "7", "8", "9"}
DigitVal(c) == CHOOSE n \in 0..9 : ToString(n) = c

Fail == [ok |-> FALSE, val |-> Undefined, pos |-> 0]
Got(v, p) == [ok |-> TRUE, val |-> v, pos |-> p]

RECURSIVE SkipWs(_, _)
SkipWs(t, i) == IF i <= Len(t) /\ t[i] \in WsChunks THEN SkipWs(t, i + 1) ELSE i

\* One character of a string literal: esc says whether a backslash precedes it.
StringStep(c, esc, p) ==
  IF esc THEN
    CASE c \in {Quote, Backslash, "/"} -> [bad |-> FALSE, end |-> 0, esc |-> FALSE, out |-> <<c>>]
      [] c = "n" -> [bad |-> FALSE, end |-> 0, esc |-> FALSE, out |-> <<"\n">>]
      [] c = "t" -> [bad |-> FALSE, end |-> 0, esc |-> FALSE, out |-> <<"\t">>]
      [] OTHER -> [bad |-> TRUE, end |-> 0, esc |-> FALSE, out |-> << >>]
  ELSE
    CASE c = Quote -> [bad |-> FALSE, end |-> p, esc |-> FALSE, out |-> << >>]
      [] c = Backslash -> [bad |-> FALSE, end |-> 0, esc |-> TRUE, out |-> << >>]
      [] c \in {"\n", "\t"} -> [bad |-> TRUE, end |-> 0, esc |-> FALSE, out |-> << >>]
      [] OTHER -> [bad |-> FALSE, end |-> 0, esc |-> FALSE, out |-> <<c>>]

\* The characters lo..hi of a string literal, left to right, up to its closing
\* quote (end is the quote's position, 0 while the literal is open). The range is
\* halved so that the evaluation's depth stays logarithmic in its length.
RECURSIVE ScanRange(_, _, _, _)
ScanRange(t, lo, hi, esc) ==
  IF lo = hi THEN StringStep(t[lo], esc, lo)
  ELSE LET mid == (lo + hi) \div 2
           a == ScanRange(t, lo, mid, esc) IN
    IF a.bad \/ a.end # 0 THEN a
    ELSE LET b == ScanRange(t, mid + 1, hi, a.esc) IN
      [bad |-> b.bad, end |-> b.end, esc |-> b.esc, out |-> a.out \o b.out]

\* The string literal whose opening quote is at position i - 1.
ScanString(t, i) ==
  IF i > Len(t) THEN Fail
  ELSE LET r == ScanRange(t, i, Len(t), FALSE) IN
    IF r.bad \/ r.end = 0 THEN Fail ELSE Got(JStr(r.out), r.end + 1)

RECURSIVE ScanNumber(_, _, _)
ScanNumber(t, i, acc) ==
  IF i <= Len(t) /\ t[i] \in DigitChunks
  THEN ScanNumber(t, i + 1, acc * 10 + DigitVal(t[i]))
  ELSE Got(JNum(acc), i)

RECURSIVE ParseValue(_, _)
RECURSIVE ParseMembers(_, _, _)
RECURSIVE ParseElements(_, _, _)

\* After "{" or ",": "key" : value, then "," or "}".
ParseMembers(t, i0, es) ==
  LET i == SkipWs(t, i0) IN
  IF i > Len(t) \/ t[i] # Quote THEN Fail
  ELSE LET k == ScanString(t, i + 1) IN
    IF ~k.ok THEN Fail
    ELSE LET c == SkipWs(t, k.pos) IN
      IF c > Len(t) \/ t[c] # ":" THEN Fail
      ELSE LET v == ParseValue(t, c + 1) IN
        IF ~v.ok THEN Fail
        ELSE LET j == SkipWs(t, v.pos)
                 es2 == PutEntry(es, k.val.str, v.val) IN
          IF j > Len(t) THEN Fail
          ELSE IF t[j] = "}" THEN Got(JObj(es2), j + 1)
          ELSE IF t[j] = "," THEN ParseMembers(t, j + 1, es2)
          ELSE Fail

\* After "[" or ",": value, then "," or "]".
ParseElements(t, i0, xs) ==
  LET v == ParseValue(t, i0) IN
  IF ~v.ok THEN Fail
  ELSE LET j == SkipWs(t, v.pos) IN
    IF j > Len(t) THEN Fail
    ELSE IF t[j] = "]" THEN Got(JArr(Append(xs, v.val)), j + 1)
    ELSE IF t[j] = "," THEN ParseElements(t, j + 1, Append(xs, v.val))
    ELSE Fail

ParseValue(t, i0) ==
  LET i == SkipWs(t, i0) IN
  IF i > Len(t) THEN Fail
  ELSE IF t[i] = "null" THEN Got(JNull, i + 1)
  ELSE IF t[i] = "true" THEN Got(JBool(TRUE), i + 1)
  ELSE IF t[i] = "false" THEN Got(JBool(FALSE), i + 1)
  ELSE IF t[i] \in DigitChunks THEN ScanNumber(t, i, 0)
  ELSE IF t[i] = Quote THEN ScanString(t, i + 1)
  ELSE IF t[i] = "[" THEN
    LET j == SkipWs(t, i + 1) IN
    IF j <= Len(t) /\ t[j] = "]" THEN Got(JArr(<< >>), j + 1)
    ELSE ParseElements(t, j, << >>)
  ELSE IF t[i] = "{" THEN
    LET j == SkipWs(t, i + 1) IN
    IF j <= Len(t) /\ t[j] = "}" THEN Got(JObj(<< >>), j + 1)
    ELSE ParseMembers(t, j, << >>)
  ELSE Fail

\* The message of the SyntaxError JSON.parse throws.
SyntaxErrorMessage == <<"Unexpected token in JSON">>

\* JSON.parse(text): [ok |-> TRUE, val] or [ok |-> FALSE] (a SyntaxError).
JSONparse(t) ==
  LET r == ParseValue(t, 1) IN
  IF r.ok /\ SkipWs(t, r.pos) = Len(t) + 1
  THEN [ok |-> TRUE, val |-> r.val]
  ELSE [ok |-> FALSE, val |-> Undefined]

RECURSIVE Digits(_)
Digits(n) == IF n < 10 THEN <<ToString(n)>> ELSE Digits(n \div 10) \o <<ToString(n % 10)>>

EscapeChunk(c) ==
  CASE c \in {Quote, Backslash} -> <<Backslash, c>>
    [] c = "\n" -> <<Backslash, "n">>
    [] c = "\t" -> <<Backslash, "t">>
    [] OTHER -> <<c>>

RECURSIVE EscapeRange(_, _, _)
EscapeRange(s, lo, hi) ==
  IF lo > hi THEN << >>
  ELSE IF lo = hi THEN EscapeChunk(s[lo])
  ELSE LET mid == (lo + hi) \div 2 IN
    EscapeRange(s, lo, mid) \o EscapeRange(s, mid + 1, hi)

EscapeString(s) == EscapeRange(s, 1, Len(s))

QuoteString(s) == <<Quote>> \o EscapeString(s) \o <<Quote>>

\* JSON.stringify(v) for a v that is not undefined; an undefined member of an
\* object is left out and an undefined element of an array is written null.
RECURSIVE Stringify(_)
RECURSIVE StringifyEntries(_, _)
RECURSIVE StringifyElements(_)
StringifyEntries(es, first) ==
  IF es = << >> THEN << >>
  ELSE IF IsUndef(Head(es).v) THEN StringifyEntries(Tail(es), first)
  ELSE (IF first THEN << >> ELSE <<",">>) \o QuoteString(Head(es).k) \o <<":">>
       \o Stringify(Head(es).v) \o StringifyEntries(Tail(es), FALSE)

StringifyElements(xs) ==
  IF xs = << >> THEN << >>
  ELSE (IF IsUndef(Head(xs)) THEN <<"null">> ELSE Stringify(Head(xs)))
       \o (IF Tail(xs) = << >> THEN << >> ELSE <<",">>)
       \o StringifyElements(Tail(xs))

Stringify(v) ==
  CASE IsNull(v) -> <<"null">>
    [] IsBool(v) -> IF v.bool THEN <<"true">> ELSE <<"false">>
    [] IsNum(v) -> Digits(v.num)
    [] IsStr(v) -> QuoteString(v.str)
    [] IsArr(v) -> <<"[">> \o StringifyElements(v.arr) \o <<"]">>
    [] IsObj(v) -> <<"{">> \o StringifyEntries(v.obj, TRUE) \o <<"}">>

\* String(v): the conversion JSON.parse and template literals apply.
RECURSIVE ToStr(_)
RECURSIVE JoinElements(_)
JoinElements(xs) ==
  IF xs = << >> THEN << >>
  ELSE (IF IsUndef(Head(xs)) \/ IsNull(Head(xs)) THEN << >> ELSE ToStr(Head(xs)))
       \o (IF Tail(xs) = << >> THEN << >> ELSE <<",">>)
       \o JoinElements(Tail(xs))

ToStr(v) ==
  CASE IsUndef(v) -> <<"undefined">>
    [] IsNull(v) -> <<"null">>
    [] IsBool(v) -> IF v.bool THEN <<"true">> ELSE <<"false">>
    [] IsNum(v) -> Digits(v.num)
    [] IsStr(v) -> v.str
    [] IsArr(v) -> JoinElements(v.arr)
    [] IsObj(v) -> <<"[object Object]">>

(***************************************************************************)
(* The response schema handed to the provider (JSON_SCHEMA.schema)         *)
(***************************************************************************)
Engines == <<"finance", "care_delivery", "technology", "risk_compliance">>
Audiences == <<"executive", "operational", "technical", "cross_functional">>
Priorities == <<"high", "medium", "low">>
Confidences == <<"low", "medium", "high">>

StrEnum(xs) == {S(xs[i]) : i \in 1..Len(xs)}
TString == [type |-> "string"]
TStringArray == [type |-> "array", items |-> TString]

InputsEchoSchema ==
  [type |-> "object", additionalProperties |-> FALSE,
   required |-> {"initiative_id", "buying_job_id", "primary_engine", "secondary_engines",
                 "audience_type", "strategic_priority", "trigger_context"},
   properties |->
     [initiative_id |-> TString,
      buying_job_id |-> TString,
      primary_engine |-> [type |-> "string", enum |-> StrEnum(Engines)],
      secondary_engines |->
        [type |-> "array", items |-> [type |-> "string", enum |-> StrEnum(Engines)]],
      audience_type |-> [type |-> "string", enum |-> StrEnum(Audiences)],
      strategic_priority |-> [type |-> "string", enum |-> StrEnum(Priorities)],
      trigger_context |-> TString]]

RecommendedAssetsSchema ==
  [type |-> "array", minItems |-> 3, maxItems |-> 3,
   items |->
     [type |-> "object", additionalProperties |-> FALSE,
      required |-> {"rank", "asset_type", "primary_channel", "format", "use_case",
                    "why_recommended", "supported_internal_artifacts",
                    "engine_alignment", "audience_alignment", "confidence"},
      properties |->
        [rank |-> [type |-> "integer", enum |-> {JNum(1), JNum(2), JNum(3)}],
         asset_type |-> TString,
         primary_channel |-> TString,
         format |-> TString,
         use_case |-> TString,
         why_recommended |->
           [type |-> "array", minItems |-> 2, maxItems |-> 6, items |-> TString],
         supported_internal_artifacts |->
           [type |-> "array", minItems |-> 1, items |-> TString],
         engine_alignment |->
           [type |-> "array", minItems |-> 1,
            items |-> [type |-> "string", enum |-> StrEnum(Engines)]],
         audience_alignment |-> [type |-> "string", enum |-> StrEnum(Audiences)],
         confidence |-> [type |-> "string", enum |-> StrEnum(Confidences)]]]]

TopAssetBuildSpecSchema ==
  [type |-> "object", additionalProperties |-> FALSE,
   required |-> {"asset_type", "primary_channel", "format", "messaging_angle", "outline"},
   properties |->
     [asset_type |-> TString,
      primary_channel |-> TString,
      format |-> TString,
      messaging_angle |-> TString,
      outline |->
        [type |-> "array", minItems |-> 4, maxItems |-> 12,
         items |->
           [type |-> "object", additionalProperties |-> FALSE,
            required |-> {"section_title", "section_goal", "required_elements"},
            properties |->
              [section_title |-> TString,
               section_goal |-> TString,
               required_elements |->
                 [type |-> "array", minItems |-> 2, maxItems |-> 8,
                  items |-> TString]]]]]]

ProofRequirementsSchema ==
  [type |-> "object", additionalProperties |-> FALSE,
   required |-> {"financial", "operational", "technical", "risk_compliance"},
   properties |->
     [financial |-> TStringArray,
      operational |-> TStringArray,
      technical |-> TStringArray,
      risk_compliance |-> TStringArray]]

ObjectionListSchema ==
  [type |-> "array",
   items |->
     [type |-> "object", additionalProperties |-> FALSE,
      required |-> {"objection", "response", "proof"},
      properties |->
        [objection |-> TString, response |-> TString, proof |-> TStringArray]]]

ObjectionHandlingSchema ==
  [type |-> "object", additionalProperties |-> FALSE,
   required |-> {"finance", "care_delivery", "technology", "risk_compliance"},
   properties |->
     [finance |-> ObjectionListSchema,
      care_delivery |-> ObjectionListSchema,
      technology |-> ObjectionListSchema,
      risk_compliance |-> ObjectionListSchema]]

TraceabilitySchema ==
  [type |-> "object", additionalProperties |-> FALSE,
   required |-> {"artifacts_used", "decision_logic_trace", "assumptions"},
   properties |->
     [artifacts_used |-> TStringArray,
      decision_logic_trace |-> TStringArray,
      assumptions |-> TStringArray]]

ResponseSchema ==
  [type |-> "object", additionalProperties |-> FALSE,
   required |-> {"inputs_echo", "trigger_context_summary", "recommended_assets",
                 "top_asset_build_spec", "proof_requirements", "objection_handling",
                 "traceability"},
   properties |->
     [inputs_echo |-> InputsEchoSchema,
      trigger_context_summary |-> TString,
      recommended_assets |-> RecommendedAssetsSchema,
      top_asset_build_spec |-> TopAssetBuildSpecSchema,
      proof_requirements |-> ProofRequirementsSchema,
      objection_handling |-> ObjectionHandlingSchema,
      traceability |-> TraceabilitySchema]]

JSON_SCHEMA == [name |-> "cram_demand_recommendation", schema |-> ResponseSchema, strict |-> TRUE]

\* Whether value v is an instance of schema node s (the keywords the schema uses:
\* type, enum, required, properties, additionalProperties, items, minItems, maxItems).
HasType(ty, v) ==
  CASE ty = "object" -> IsObj(v)
    [] ty = "array" -> IsArr(v)
    [] ty = "string" -> IsStr(v)
    [] ty = "integer" -> IsNum(v)
    [] OTHER -> FALSE

KeyName(k) == IF Len(k) = 1 THEN k[1] ELSE ""

RECURSIVE Validates(_, _)
Validates(s, v) ==
  /\ HasType(s.type, v)
  /\ "enum" \in DOMAIN s => v \in s.enum
  /\ IsObj(v) =>
       /\ "required" \in DOMAIN s => \A r \in s.required : <<r>> \in Keys(v)
       /\ "properties" \in DOMAIN s =>
            \A i \in 1..Len(v.obj) :
              IF KeyName(v.obj[i].k) \in DOMAIN s.properties
              THEN Validates(s.properties[KeyName(v.obj[i].k)], v.obj[i].v)
              ELSE s.additionalProperties
  /\ IsArr(v) =>
       /\ "minItems" \in DOMAIN s => Len(v.arr) >= s.minItems
       /\ "maxItems" \in DOMAIN s => Len(v.arr) <= s.maxItems
       /\ "items" \in DOMAIN s => \A i \in 1..Len(v.arr) : Validates(s.items, v.arr[i])


(***************************************************************************)
(* Requests, the knowledge base and provider answers the model draws from  *)
(***************************************************************************)
BuyingJobs == <<"problem_identification", "solution_exploration", "requirements_building",
                "vendor_selection", "purchase">>

\* The RecommendRequest the form builds (its members in the payload's order).
MkRequest(initiative, job, primary, secondaries, audience, priority, trigger) ==
  JObj(<<E("initiative_id", JStr(initiative)),
         E("buying_job_id", S(job)),
         E("primary_engine", S(primary)),
         E("secondary_engines", JArr([i \in 1..Len(secondaries) |-> S(secondaries[i])])),
         E("audience_type", S(audience)),
         E("strategic_priority", S(priority)),
         E("trigger_context", JStr(trigger))>>)

SampleRequest ==
  MkRequest(<<"reduce_denials">>, "vendor_selection", "risk_compliance", << >>,
            "executive", "high", <<"Denials up 15% this quarter.">>)
OtherRequest ==
  MkRequest(<<"improve_access">>, "purchase", "finance", <<"technology">>,
            "technical", "low", <<"Budget", " ", "freeze">>)

SampleKb ==
  JObj(<<E("initiatives",
           JObj(<<E("reduce_denials",
                    JObj(<<E("id", S("reduce_denials")), E("name", S("Reduce Denials"))>>)),
                  E("improve_access",
                    JObj(<<E("id", S("improve_access")), E("name", S("Improve Access"))>>))>>)),
         E("buying_jobs",
           JObj(<<E("vendor_selection",
                    JObj(<<E("decision_intent", S("choose a vendor"))>>))>>))>>)

Strs(xs) == JArr([i \in 1..Len(xs) |-> S(xs[i])])

SampleAsset(rank) ==
  JObj(<<E("rank", JNum(rank)),
         E("asset_type", S("roi_calculator")),
         E("primary_channel", S("email")),
         E("format", S("pdf")),
         E("use_case", S("justify the purchase")),
         E("why_recommended", Strs(<<"fits the buying job", "fits the engine">>)),
         E("supported_internal_artifacts", Strs(<<"denials_dashboard">>)),
         E("engine_alignment", Strs(<<"risk_compliance">>)),
         E("audience_alignment", S("executive")),
         E("confidence", S("medium"))>>)

SampleSection(title) ==
  JObj(<<E("section_title", S(title)),
         E("section_goal", S("goal")),
         E("required_elements", Strs(<<"element 1", "element 2">>))>>)

SampleObjection ==
  JObj(<<E("objection", S("too costly")), E("response", S("payback in a year")),
         E("proof", Strs(<<"case study">>))>>)

\* A response that is an instance of the schema, echoing request `echo` and
\* ranking its three assets `ranks`.
SampleResponse(echo, ranks) ==
  JObj(<<E("inputs_echo", echo),
         E("trigger_context_summary", S("denials are rising")),
         E("recommended_assets", JArr([i \in 1..Len(ranks) |-> SampleAsset(ranks[i])])),
         E("top_asset_build_spec",
           JObj(<<E("asset_type", S("roi_calculator")),
                  E("primary_channel", S("email")),
                  E("format", S("pdf")),
                  E("messaging_angle", S("cost of inaction")),
                  E("outline", JArr(<<SampleSection("s1"), SampleSection("s2"),
                                      SampleSection("s3"), SampleSection("s4")>>))>>)),
         E("proof_requirements",
           JObj(<<E("financial", Strs(<<"roi">>)), E("operational", Strs(<< >>)),
                  E("technical", Strs(<< >>)), E("risk_compliance", Strs(<<"audit">>))>>)),
         E("objection_handling",
           JObj(<<E("finance", JArr(<<SampleObjection>>)), E("care_delivery", JArr(<< >>)),
                  E("technology", JArr(<< >>)), E("risk_compliance", JArr(<< >>))>>)),
         E("traceability",
           JObj(<<E("artifacts_used", Strs(<<"denials_dashboard">>)),
                  E("decision_logic_trace", Strs(<<"step 1", "step 2">>)),
                  E("assumptions", Strs(<< >>))>>))>>)

SetMember(v, k, x) == JObj(PutEntry(v.obj, <<k>>, x))
DropMember(v, k) == JObj(SelectSeq(v.obj, LAMBDA e : e.k # <<k>>))

GoodResponse == SampleResponse(SampleRequest, <<1, 2, 3>>)

\* Objects a provider may put in its message content.
ConformantContents ==
  {GoodResponse,
   SampleResponse(SampleRequest, <<2, 3, 1>>),
   SampleResponse(OtherRequest, <<1, 2, 3>>),
   SampleResponse(SampleRequest, <<1, 1, 3>>)}

NonConformantContents ==
  {SetMember(GoodResponse, "debug", S("x")),
   DropMember(GoodResponse, "traceability"),
   SetMember(GoodResponse, "recommended_assets",
             JArr(<<SampleAsset(1), SampleAsset(2),
                    SetMember(SampleAsset(3), "confidence", S("certain"))>>)),
   SetMember(GoodResponse, "recommended_assets",
             JArr(<<SampleAsset(1), SampleAsset(2),
                    SetMember(SampleAsset(3), "score", JNum(9))>>)),
   SetMember(GoodResponse, "recommended_assets", JArr(<<SampleAsset(1), SampleAsset(2)>>)),
   JObj(<< >>)}

GoodText == Stringify(GoodResponse)

\* Values of choices[0].message.content: the text of an object, text that is no
\* JSON, the text of a JSON value that is no object, "", null (a refusal), and
\* values that are no string.
ProviderContents ==
  {JStr(Stringify(v)) : v \in ConformantContents \cup NonConformantContents}
  \cup {JStr(SubSeq(GoodText, 1, 12)), JStr(<<"I cannot help with that.">>),
        JStr(<<"null">>), JStr(<<"4", "2">>), JStr(<< >>), JNull, JNum(7),
        JObj(<<E("a", JNum(1))>>)}

Completion(content) ==
  JObj(<<E("id", S("chatcmpl-1")),
         E("choices",
           JArr(<<JObj(<<E("index", JNum(0)),
                         E("message", JObj(<<E("role", S("assistant")),
                                             E("content", content)>>)),
                         E("finish_reason", S("stop"))>>)>>))>>)

\* Bodies of a provider answer with a success status.
SuccessBodies ==
  {Stringify(Completion(c)) : c \in ProviderContents}
  \cup {Stringify(JObj(<<E("choices", JArr(<< >>))>>)),
        Stringify(JObj(<<E("choices", JArr(<<JObj(<<E("index", JNum(0))>>)>>))>>)),
        Stringify(JObj(<<E("id", S("chatcmpl-1"))>>)),
        <<"null">>, <<"<html>", "Bad Gateway", "</html>">>, << >>}

\* Bodies of a provider answer with a non-success status.
FailureBodies ==
  {Stringify(JObj(<<E("error", JObj(<<E("code", S("429")),
                                     E("message", S("Rate limit exceeded"))>>))>>)),
   <<"Service Unavailable">>, << >>}

NoAnswer == [kind |-> "none", status |-> 0, body |-> << >>]
TransportFailure == [kind |-> "neterr", status |-> 0, body |-> << >>]
HttpAnswer(status, body) == [kind |-> "http", status |-> status, body |-> body]

SuccessStatuses == {200, 201}
FailureStatuses == {401, 429, 500}

\* What the fetch of callAzureOpenAI may end in.
ProviderAnswers ==
  {TransportFailure}
  \cup {HttpAnswer(st, b) : st \in SuccessStatuses, b \in SuccessBodies}
  \cup {HttpAnswer(st, b) : st \in FailureStatuses, b \in FailureBodies}

\* process.env values: unset, set to "", set to a value.
EndpointValues == {Undefined, JStr(<< >>), JStr(<<"https://cram.openai.azure.com", "/", "/">>)}
ApiKeyValues == {Undefined, JStr(<< >>), JStr(<<"secret-key">>)}
DeploymentValues == {Undefined, JStr(<< >>), JStr(<<"gpt-4o">>)}
Environments ==
  [endpoint : EndpointValues, apiKey : ApiKeyValues, deployment : DeploymentValues]

\* req.body: absent, structured, or a string (JSON text, broken text, "").
RequestBodies ==
  {Undefined, SampleRequest, OtherRequest, JStr(Stringify(SampleRequest)),
   JStr(<<"{", Quote, "initiative_id">>), JStr(<< >>), JStr(<<"null">>)}

\* The knowledge-base file: missing, unparseable, or the document's text.
KbFiles == {Undefined, JStr(<<"{", Quote, "initiatives", Quote, ":">>), JStr(Stringify(SampleKb))}

(***************************************************************************)
(* The Recommendation Gateway (api/recommend/index.js)                     *)
(***************************************************************************)
StatusOk == 200
StatusError == 500

SYSTEM_PROMPT == <<"You are CRAM Demand - a decision-support assistant ...">>

KbPath == <<"../data/kb_dummy_v1.json">>

\* Mutant: a document that cannot be read or parsed counts as an empty one.
readKbJson_Lenient(file) ==
  IF IsUndef(file) THEN [ok |-> TRUE, val |-> JObj(<< >>), msg |-> << >>]
  ELSE Let(JSONparse(file.str), LAMBDA p :
    [ok |-> TRUE, val |-> IF p.ok THEN p.val ELSE JObj(<< >>), msg |-> << >>])

\* readKbJson(): the parsed document, or the error readFileSync or JSON.parse throws.
readKbJson(file) ==
  IF IsUndef(file)
  THEN [ok |-> FALSE, val |-> Undefined,
        msg |-> <<"ENOENT: no such file or directory, open ">> \o KbPath]
  ELSE Let(JSONparse(file.str), LAMBDA p :
    IF p.ok THEN [ok |-> TRUE, val |-> p.val, msg |-> << >>]
    ELSE [ok |-> FALSE, val |-> Undefined, msg |-> SyntaxErrorMessage])

\* Mutant: the check forgets the deployment identifier.
ConfigMissing_NoDeployment(env) == ~Truthy(env.endpoint) \/ ~Truthy(env.apiKey)

\* !endpoint || !apiKey || !deployment
ConfigMissing(env) ==
  ~Truthy(env.endpoint) \/ ~Truthy(env.apiKey) \/ ~Truthy(env.deployment)

MissingEnvMessage ==
  <<"Missing env vars. Set AZURE_OPENAI_ENDPOINT, AZURE_OPENAI_API_KEY, AZURE_OPENAI_DEPLOYMENT in Azure Static Web Apps configuration.">>

NoHeaders == << >>
JsonHeaders == <<"Content-Type: application/json">>

\* The response of the configuration check.
MissingEnvRes ==
  [status |-> StatusError, headers |-> NoHeaders,
   body |-> JObj(<<E("error", JStr(MissingEnvMessage))>>)]

\* Mutant: the catch block reports the error with the success status.
CatchRes_Degraded(message) ==
  [status |-> 200, headers |-> << >>,
   body |-> JObj(<<E("error", JStr(IF message # << >> THEN message ELSE <<"Error">>))>>)]

\* The response of the catch block: err.message || String(err).
CatchRes(message) ==
  [status |-> StatusError, headers |-> NoHeaders,
   body |-> JObj(<<E("error", JStr(IF message # << >> THEN message ELSE <<"Error">>))>>)]

\* The response of the success path.
SuccessRes(parsed) == [status |-> StatusOk, headers |-> JsonHeaders, body |-> parsed]

\* Mutant: a string body is passed on as the string it is.
RequestInputs_Unparsed(body) == OrElse(body, JObj(<< >>))

\* let inputs = req.body || {}; a string is parsed, {} when that fails.
RequestInputs(body) ==
  LET inputs == OrElse(body, JObj(<< >>)) IN
  IF IsStr(inputs)
  THEN Let(JSONparse(inputs.str), LAMBDA p : IF p.ok THEN p.val ELSE JObj(<< >>))
  ELSE inputs

UserMsg(kb, inputs) ==
  <<"KNOWLEDGE_BASE_JSON:\n">> \o Stringify(kb) \o <<"\n\n">>
  \o <<"REQUEST_INPUTS_JSON:\n">> \o Stringify(inputs) \o <<"\n\n">>
  \o <<"Return only JSON that matches the provided schema.">>

\* endpoint.replace(/\/+$/, "")
RECURSIVE StripTrailingSlashes(_)
StripTrailingSlashes(s) ==
  IF s # << >> /\ s[Len(s)] = "/" THEN StripTrailingSlashes(SubSeq(s, 1, Len(s) - 1)) ELSE s

\* The fetch callAzureOpenAI issues.
AzureFetch(endpoint, apiKey, deployment, system, user, schema) ==
  [method |-> "POST",
   url |-> StripTrailingSlashes(endpoint.str) \o <<"/openai/deployments/">> \o ToStr(deployment)
           \o <<"/chat/completions?api-version=2024-08-01-preview">>,
   apiKey |-> apiKey.str,
   messages |-> <<[role |-> "system", content |-> system],
                  [role |-> "user", content |-> user]>>,
   temperature |-> "0.4",
   response_format |-> [type |-> "json_schema", json_schema |-> schema.name]]

\* Mutant: the call is issued a second time.
CallsIssued_Twice(fetch) == <<fetch, fetch>>

\* The fetches of one callAzureOpenAI: the one await fetch(url, ...).
CallsIssued(fetch) == <<fetch>>

\* resp.ok
IsOk(status) == status >= 200 /\ status <= 299

\* Mutant: the error carries neither the status nor the body text.
UpstreamErrorMessage_Bare(status, text) == <<"Azure OpenAI error">>

UpstreamErrorMessage(status, text) ==
  <<"Azure OpenAI error ", ToString(status), ": ">> \o text

NoContentMessage == <<"No content returned from Azure OpenAI.">>
FetchFailedMessage == <<"fetch failed">>

\* data?.choices?.[0]?.message?.content
MessageContent(data) == Get(Get(Get0(Get(data, "choices")), "message"), "content")

Returns(v) == [ok |-> TRUE, val |-> v, msg |-> << >>]
Throws(m) == [ok |-> FALSE, val |-> Undefined, msg |-> m]

\* Mutant: the content is returned unchecked.
ContentOrThrow_Unchecked(content) == Returns(content)

\* if (!content) throw ...; return content
ContentOrThrow(content) ==
  Let(content, LAMBDA c : IF ~Truthy(c) THEN Throws(NoContentMessage) ELSE Returns(c))

\* callAzureOpenAI from the point its fetch settles with `answer`: the content it
\* returns, or the error it throws.
callAzureOpenAI(answer) ==
  IF answer.kind = "neterr" THEN Throws(FetchFailedMessage)
  ELSE IF ~IsOk(answer.status) THEN Throws(UpstreamErrorMessage(answer.status, answer.body))
  ELSE Let(JSONparse(answer.body), LAMBDA data :
    IF ~data.ok THEN Throws(SyntaxErrorMessage)
    ELSE ContentOrThrow(MessageContent(data.val)))

\* Mutant: the body is the provider's text, checked but not parsed.
ParsedRes_Raw(raw) ==
  Let(JSONparse(ToStr(raw)), LAMBDA parsed :
    IF parsed.ok THEN SuccessRes(raw) ELSE CatchRes(SyntaxErrorMessage))

\* const parsed = JSON.parse(raw); context.res = { status: 200, ..., body: parsed }
ParsedRes(raw) ==
  Let(JSONparse(ToStr(raw)), LAMBDA parsed :
    IF parsed.ok THEN SuccessRes(parsed.val) ELSE CatchRes(SyntaxErrorMessage))

\* Mutant: an error of callAzureOpenAI escapes the handler, context.res unset.
HandlerRes_Uncaught(answer) ==
  Let(callAzureOpenAI(answer), LAMBDA raw :
    IF raw.ok THEN ParsedRes(raw.val) ELSE Undefined)

\* The handler from the point callAzureOpenAI settles: the response it sets.
HandlerRes(answer) ==
  Let(callAzureOpenAI(answer), LAMBDA raw :
    IF raw.ok THEN ParsedRes(raw.val) ELSE CatchRes(raw.msg))

VARIABLES
  gwPc,       \* "idle", "awaiting" (the handler awaits callAzureOpenAI) or "done"
  gwEnv,      \* process.env as the invocation read it
  gwBody,     \* req.body
  gwKbFile,   \* the knowledge-base file as the invocation found it
  gwKbReads,  \* reads of the knowledge-base file by this invocation
  gwCalls,    \* the fetches this invocation issued, in order
  gwAnswer,   \* what the fetch settled with
  gwRes,      \* context.res (Undefined while unset)
  gwResSets   \* assignments to context.res by this invocation

gwVars == <<gwPc, gwEnv, gwBody, gwKbFile, gwKbReads, gwCalls, gwAnswer, gwRes, gwResSets>>

VARIABLES
  kb,                \* the knowledge base the form loaded (null before)
  kbLoading,         \* loadKb's fetch is outstanding
  crashed,           \* rendering threw: the page is gone
  initiativeId, buyingJobId, primaryEngine, secondaryEngines,
  audienceType, priority, triggerContext,
  loading, error, result,
  inFlight,          \* the number of outstanding fetches of /api/recommend
  clicked,           \* the last step was a click on the submit control
  transmitted,       \* the body of the fetch the last step issued (NoRequest: none)
  priorResult,       \* the result on display when the latest submission started
  lastAnswer         \* what the last completed submission's fetch settled with

formVars == <<initiativeId, buyingJobId, primaryEngine, secondaryEngines,
              audienceType, priority, triggerContext>>
uiVars == <<kb, kbLoading, crashed, initiativeId, buyingJobId, primaryEngine,
            secondaryEngines, audienceType, priority, triggerContext,
            loading, error, result, inFlight, clicked, transmitted,
            priorResult, lastAnswer>>

GwInit ==
  /\ gwPc = "idle"
  /\ gwEnv = [endpoint |-> Undefined, apiKey |-> Undefined, deployment |-> Undefined]
  /\ gwBody = Undefined
  /\ gwKbFile = Undefined
  /\ gwKbReads = 0
  /\ gwCalls = << >>
  /\ gwAnswer = NoAnswer
  /\ gwRes = Undefined
  /\ gwResSets = 0

\* module.exports(context, req) up to its await: the configuration check, the
\* knowledge-base read, the request inputs and the fetch of callAzureOpenAI.
Invoke(env, body, file) ==
  /\ gwPc = "idle"
  /\ gwEnv' = env
  /\ gwBody' = body
  /\ gwKbFile' = file
  /\ gwAnswer' = NoAnswer
  /\ IF ConfigMissing(env)
     THEN /\ gwRes' = MissingEnvRes
          /\ gwResSets' = 1
          /\ gwKbReads' = 0
          /\ gwCalls' = << >>
          /\ gwPc' = "done"
     ELSE \E read \in {readKbJson(file)} :
          /\ gwKbReads' = 1
          /\ IF ~read.ok
             THEN /\ gwRes' = CatchRes(read.msg)
                  /\ gwResSets' = 1
                  /\ gwCalls' = << >>
                  /\ gwPc' = "done"
             ELSE /\ gwRes' = Undefined
                  /\ gwResSets' = 0
                  /\ gwCalls' = CallsIssued(AzureFetch(env.endpoint, env.apiKey,
                                                        env.deployment, SYSTEM_PROMPT,
                                                        UserMsg(read.val, RequestInputs(body)),
                                                        JSON_SCHEMA))
                  /\ gwPc' = "awaiting"
  /\ UNCHANGED uiVars

\* The fetch settles and the handler runs to its end.
Settle(answer) ==
  /\ gwPc = "awaiting"
  /\ gwAnswer' = answer
  /\ gwRes' = HandlerRes(answer)
  /\ gwResSets' = gwResSets + 1
  /\ gwPc' = "done"
  /\ UNCHANGED <<gwEnv, gwBody, gwKbFile, gwKbReads, gwCalls>>
  /\ UNCHANGED uiVars

\* The handler's promise resolves: the host sends context.res, and the next
\* invocation starts with a context and locals of its own.
Respond ==
  /\ gwPc = "done"
  /\ gwPc' = "idle"
  /\ gwEnv' = [endpoint |-> Undefined, apiKey |-> Undefined, deployment |-> Undefined]
  /\ gwBody' = Undefined
  /\ gwKbFile' = Undefined
  /\ gwKbReads' = 0
  /\ gwCalls' = << >>
  /\ gwAnswer' = NoAnswer
  /\ gwRes' = Undefined
  /\ gwResSets' = 0
  /\ UNCHANGED uiVars

GwNext ==
  \/ \E env \in Environments, body \in RequestBodies, file \in KbFiles : Invoke(env, body, file)
  \/ \E answer \in ProviderAnswers : Settle(answer)
  \/ Respond


(***************************************************************************)
(* The Interactive Form (web/app/page.tsx)                                 *)
(***************************************************************************)
\* Longest trigger context the model's user types.
MaxTriggerLen == 2
\* Most fetches of /api/recommend the model lets be outstanding at once.
MaxInFlight == 2

TriggerChars == {" ", "a"}
RECURSIVE TextsUpTo(_)
TextsUpTo(n) ==
  IF n = 0 THEN {<< >>}
  ELSE LET shorter == TextsUpTo(n - 1) IN
    shorter \cup {Append(t, c) : t \in shorter, c \in TriggerChars}
TriggerTexts == TextsUpTo(MaxTriggerLen)

\* The options the model's user picks among (every menu holds all its options).
UserBuyingJobs == {"problem_identification", "vendor_selection"}
UserEngines == {"finance", "technology"}
UserAudiences == {"executive", "technical"}
UserPriorities == {"high", "low"}

\* String.prototype.trim
RECURSIVE TrimStart(_)
TrimStart(s) == IF s # << >> /\ Head(s) \in WsChunks THEN TrimStart(Tail(s)) ELSE s
RECURSIVE TrimEnd(_)
TrimEnd(s) ==
  IF s # << >> /\ s[Len(s)] \in WsChunks THEN TrimEnd(SubSeq(s, 1, Len(s) - 1)) ELSE s
Trim(s) == TrimEnd(TrimStart(s))

\* Object.keys(v), in order
ObjectKeys(v) ==
  CASE IsObj(v) -> [i \in 1..Len(v.obj) |-> v.obj[i].k]
    [] IsArr(v) -> [i \in 1..Len(v.arr) |-> <<ToString(i - 1)>>]
    [] IsStr(v) -> [i \in 1..Len(v.str) |-> <<ToString(i - 1)>>]
    [] OTHER -> << >>

\* Answers to the form's fetch of /data/kb_dummy_v1.json.
EmptyKb == JObj(<<E("initiatives", JObj(<< >>))>>)
KbAnswers ==
  {TransportFailure,
   HttpAnswer(200, Stringify(SampleKb)),
   HttpAnswer(200, Stringify(EmptyKb)),
   HttpAnswer(200, <<"<html>", "Not Found", "</html>">>),
   HttpAnswer(200, <<"null">>),
   HttpAnswer(404, <<"Not Found">>)}

\* Answers to the form's fetch of /api/recommend.
SmallResult == JObj(<<E("trigger_context_summary", S("denials are rising"))>>)
RecommendAnswers ==
  {TransportFailure,
   HttpAnswer(200, Stringify(SmallResult)),
   HttpAnswer(200, << >>),
   HttpAnswer(200, <<"null">>),
   HttpAnswer(200, <<"<html>", "</html>">>),
   HttpAnswer(500, Stringify(JObj(<<E("error", JStr(NoContentMessage))>>))),
   HttpAnswer(500, Stringify(JObj(<<E("error", JObj(<<E("code", JNum(5))>>))>>))),
   HttpAnswer(500, <<"Backend call failure">>),
   HttpAnswer(502, << >>)}

SelectInitiativeMessage == <<"Select an initiative.">>
\* (the source writes an en dash between 1 and 2)
AddTriggerMessage == <<"Add a short trigger context (1-2 sentences).">>
EmptyResponseMessage == <<"API returned empty/non-JSON response.">>
FailedToFetchMessage == <<"Failed to fetch">>
KbLoadFailedMessage(status) == <<"Failed to load KB: ", ToString(status)>>
RequestFailedMessage(status) == <<"Request failed (", ToString(status), ")">>
NullInitiativesMessage == <<"Cannot read properties of null (reading 'initiatives')">>

\* e?.message || String(e) for e = new Error(msg)
ErrorMessage(msg) == Let(ToStr(msg), LAMBDA m : IF m # << >> THEN m ELSE <<"Error">>)

\* Mutant: loadKb sets the knowledge base and selects no initiative.
loadKb_NoDefault(answer) ==
  IF answer.kind = "neterr"
  THEN [kb |-> Undefined, initiative |-> Undefined, error |-> JStr(FailedToFetchMessage)]
  ELSE IF ~IsOk(answer.status)
  THEN [kb |-> Undefined, initiative |-> Undefined,
        error |-> JStr(KbLoadFailedMessage(answer.status))]
  ELSE Let(JSONparse(answer.body), LAMBDA data :
    IF ~data.ok
    THEN [kb |-> Undefined, initiative |-> Undefined, error |-> JStr(SyntaxErrorMessage)]
    ELSE [kb |-> data.val, initiative |-> Undefined, error |-> Undefined])

\* loadKb from the point its fetch settles: the kb set (Undefined: setKb is not
\* called), the initiative set (Undefined: not set) and the error set (Undefined:
\* not set).
loadKb(answer) ==
  LET failed(msg) == [kb |-> Undefined, initiative |-> Undefined, error |-> JStr(msg)] IN
  IF answer.kind = "neterr" THEN failed(FailedToFetchMessage)
  ELSE IF ~IsOk(answer.status) THEN failed(KbLoadFailedMessage(answer.status))
  ELSE Let(JSONparse(answer.body), LAMBDA data :
    IF ~data.ok THEN failed(SyntaxErrorMessage)
    ELSE IF IsNull(data.val)
      THEN [kb |-> data.val, initiative |-> Undefined, error |-> JStr(NullInitiativesMessage)]
    ELSE Let(ObjectKeys(OrElse(Get(data.val, "initiatives"), JObj(<< >>))), LAMBDA keys :
      [kb |-> data.val,
       initiative |-> IF Len(keys) > 0 THEN JStr(keys[1]) ELSE Undefined,
       error |-> Undefined]))

\* Mutant: the menu offers an initiative whatever the knowledge base holds.
InitiativeOptionIds_Stale(k) == <<<<"legacy_initiative">>>>

\* The ids of initiativeOptions.
InitiativeOptionIds(k) ==
  IF ~Truthy(k) THEN << >> ELSE ObjectKeys(Get(k, "initiatives"))

\* Whether rendering throws: Object.entries(kb.initiatives) of a kb without
\* initiatives, or obj.name of an initiative that is null.
RenderThrows(k) ==
  /\ Truthy(k)
  /\ LET inits == Get(k, "initiatives") IN
     \/ IsUndef(inits) \/ IsNull(inits)
     \/ IsObj(inits) /\ \E i \in 1..Len(inits.obj) : IsNull(inits.obj[i].v)

\* toggleSecondary's updater
toggleSecondary(prev, engine) ==
  IF \E i \in 1..Len(prev) : prev[i] = engine
  THEN SelectSeq(prev, LAMBDA e : e # engine)
  ELSE Append(prev, engine)

\* Mutant: the primary engine is left among the secondary engines.
SecondaryPayload_Unfiltered(secondaries, primary) == secondaries

\* secondaryEngines.filter((e) => e !== primaryEngine)
SecondaryPayload(secondaries, primary) == SelectSeq(secondaries, LAMBDA e : e # primary)

\* Mutant: only the initiative is required.
ValidationError_InitiativeOnly(initiative, trigger) ==
  IF initiative = << >> THEN SelectInitiativeMessage ELSE << >>

\* onGenerate's validation: the message it reports, "" when the form passes.
ValidationError(initiative, trigger) ==
  IF initiative = << >> THEN SelectInitiativeMessage
  ELSE IF Trim(trigger) = << >> THEN AddTriggerMessage
  ELSE << >>

\* triggerContext.trim()
PayloadTrigger(trigger) == Trim(trigger)

\* Mutant: the control stays enabled while a call is outstanding.
SubmitEnabled_Always(busy) == TRUE

\* The submit control: disabled={loading}
SubmitEnabled(busy) == ~busy

\* Mutant: onGenerate starts without clearing the error.
ErrorAtStart_Kept(prior) == prior

\* onGenerate's start: setError("")
ErrorAtStart(prior) == << >>

\* Mutant: the busy flag is cleared only when the call succeeded.
LoadingAtEnd_OnSuccessOnly(ok) == ~ok

\* onGenerate's finally: setLoading(false)
LoadingAtEnd(ok) == FALSE

\* Mutant: onGenerate starts without clearing the result.
ResultAtStart_Kept(prior) == prior

\* onGenerate's start: setResult(null)
ResultAtStart(prior) == JNull

\* Mutant: a bad status is reported by its number alone, and a good one is
\* accepted whatever the body.
onGenerateSettled_StatusOnly(answer) ==
  IF answer.kind = "neterr" THEN Throws(FailedToFetchMessage)
  ELSE IF ~IsOk(answer.status) THEN Throws(RequestFailedMessage(answer.status))
  ELSE Let(JSONparse(answer.body), LAMBDA parsed :
    Returns(IF parsed.ok THEN parsed.val ELSE JStr(answer.body)))

\* onGenerate from the point its fetch settles: the data it passes to setResult,
\* or the message (e?.message || String(e)) it passes to setError.
onGenerateSettled(answer) ==
  IF answer.kind = "neterr" THEN Throws(FailedToFetchMessage)
  ELSE
    LET rawText == JStr(answer.body)
        parsed == IF Truthy(rawText) THEN JSONparse(answer.body)
                  ELSE [ok |-> TRUE, val |-> JNull] IN
    Let(IF parsed.ok THEN parsed.val ELSE JNull, LAMBDA data :
      IF ~IsOk(answer.status)
      THEN Throws(ErrorMessage(OrElse(OrElse(Get(data, "error"), rawText),
                                      JStr(RequestFailedMessage(answer.status)))))
      ELSE IF ~Truthy(data) THEN Throws(EmptyResponseMessage)
      ELSE Returns(data))

NoRequest == << >>

UiInit ==
  /\ kb = JNull
  /\ kbLoading = TRUE
  /\ crashed = FALSE
  /\ initiativeId = << >>
  /\ buyingJobId = "problem_identification"
  /\ primaryEngine = "finance"
  /\ secondaryEngines = << >>
  /\ audienceType = "executive"
  /\ priority = "high"
  /\ triggerContext = << >>
  /\ loading = FALSE
  /\ error = << >>
  /\ result = JNull
  /\ inFlight = 0
  /\ transmitted = NoRequest
  /\ clicked = FALSE
  /\ priorResult = JNull
  /\ lastAnswer = NoAnswer

\* loadKb's fetch settles.
KbLoaded(answer) ==
  /\ ~crashed /\ kbLoading
  /\ kbLoading' = FALSE
  /\ \E r \in {loadKb(answer)} :
       /\ kb' = IF IsUndef(r.kb) THEN kb ELSE r.kb
       /\ initiativeId' = IF IsUndef(r.initiative) THEN initiativeId ELSE r.initiative.str
       /\ error' = IF IsUndef(r.error) THEN error ELSE r.error.str
  /\ crashed' = RenderThrows(kb')
  /\ UNCHANGED <<buyingJobId, primaryEngine, secondaryEngines, audienceType, priority,
                 triggerContext, loading, result, inFlight, priorResult, lastAnswer>>
  /\ clicked' = FALSE
  /\ transmitted' = NoRequest
  /\ UNCHANGED gwVars

SelectInitiative(id) ==
  /\ ~crashed
  /\ initiativeId' = id
  /\ UNCHANGED <<kb, kbLoading, crashed, buyingJobId, primaryEngine, secondaryEngines,
                 audienceType, priority, triggerContext, loading, error, result,
                 inFlight, priorResult, lastAnswer>>
  /\ clicked' = FALSE
  /\ transmitted' = NoRequest
  /\ UNCHANGED gwVars

SelectBuyingJob(job) ==
  /\ ~crashed
  /\ buyingJobId' = job
  /\ UNCHANGED <<kb, kbLoading, crashed, initiativeId, primaryEngine, secondaryEngines,
                 audienceType, priority, triggerContext, loading, error, result,
                 inFlight, priorResult, lastAnswer>>
  /\ clicked' = FALSE
  /\ transmitted' = NoRequest
  /\ UNCHANGED gwVars

SelectPrimaryEngine(engine) ==
  /\ ~crashed
  /\ primaryEngine' = engine
  /\ UNCHANGED <<kb, kbLoading, crashed, initiativeId, buyingJobId, secondaryEngines,
                 audienceType, priority, triggerContext, loading, error, result,
                 inFlight, priorResult, lastAnswer>>
  /\ clicked' = FALSE
  /\ transmitted' = NoRequest
  /\ UNCHANGED gwVars

SelectAudience(audience) ==
  /\ ~crashed
  /\ audienceType' = audience
  /\ UNCHANGED <<kb, kbLoading, crashed, initiativeId, buyingJobId, primaryEngine,
                 secondaryEngines, priority, triggerContext, loading, error, result,
                 inFlight, priorResult, lastAnswer>>
  /\ clicked' = FALSE
  /\ transmitted' = NoRequest
  /\ UNCHANGED gwVars

SelectPriority(p) ==
  /\ ~crashed
  /\ priority' = p
  /\ UNCHANGED <<kb, kbLoading, crashed, initiativeId, buyingJobId, primaryEngine,
                 secondaryEngines, audienceType, triggerContext, loading, error, result,
                 inFlight, priorResult, lastAnswer>>
  /\ clicked' = FALSE
  /\ transmitted' = NoRequest
  /\ UNCHANGED gwVars

ToggleSecondary(engine) ==
  /\ ~crashed
  /\ secondaryEngines' = toggleSecondary(secondaryEngines, engine)
  /\ UNCHANGED <<kb, kbLoading, crashed, initiativeId, buyingJobId, primaryEngine,
                 audienceType, priority, triggerContext, loading, error, result,
                 inFlight, priorResult, lastAnswer>>
  /\ clicked' = FALSE
  /\ transmitted' = NoRequest
  /\ UNCHANGED gwVars

TypeTrigger(text) ==
  /\ ~crashed
  /\ triggerContext' = text
  /\ UNCHANGED <<kb, kbLoading, crashed, initiativeId, buyingJobId, primaryEngine,
                 secondaryEngines, audienceType, priority, loading, error, result,
                 inFlight, priorResult, lastAnswer>>
  /\ clicked' = FALSE
  /\ transmitted' = NoRequest
  /\ UNCHANGED gwVars

\* The body of the fetch onGenerate issues.
Payload ==
  Stringify(MkRequest(initiativeId, buyingJobId, primaryEngine,
                      SecondaryPayload(secondaryEngines, primaryEngine),
                      audienceType, priority, PayloadTrigger(triggerContext)))

\* A click on the submit control: onGenerate up to its await.
Generate ==
  /\ ~crashed
  /\ SubmitEnabled(loading)
  /\ inFlight < MaxInFlight
  /\ clicked' = TRUE
  /\ result' = ResultAtStart(result)
  /\ \E invalid \in {ValidationError(initiativeId, triggerContext)} :
       IF invalid # << >>
       THEN /\ error' = invalid
            /\ transmitted' = NoRequest
            /\ UNCHANGED <<loading, inFlight, priorResult>>
       ELSE /\ error' = ErrorAtStart(error)
            /\ loading' = TRUE
            /\ inFlight' = inFlight + 1
            /\ transmitted' = Payload
            /\ priorResult' = result
  /\ UNCHANGED <<kb, kbLoading, crashed, formVars, lastAnswer>>
  /\ UNCHANGED gwVars

\* An outstanding fetch settles and its onGenerate runs to its end.
Settled(answer) ==
  /\ ~crashed
  /\ inFlight > 0
  /\ inFlight' = inFlight - 1
  /\ clicked' = FALSE
  /\ transmitted' = NoRequest
  /\ UNCHANGED gwVars
  /\ \E r \in {onGenerateSettled(answer)} :
       /\ result' = IF r.ok THEN r.val ELSE result
       /\ error' = IF r.ok THEN error ELSE r.msg
       /\ loading' = LoadingAtEnd(r.ok)
  /\ lastAnswer' = answer
  /\ UNCHANGED <<kb, kbLoading, crashed, formVars, priorResult>>

UiNext ==
  \/ \E answer \in KbAnswers : KbLoaded(answer)
  \/ \E i \in 1..Len(InitiativeOptionIds(kb)) : SelectInitiative(InitiativeOptionIds(kb)[i])
  \/ \E job \in UserBuyingJobs : SelectBuyingJob(job)
  \/ \E engine \in UserEngines : SelectPrimaryEngine(engine)
  \/ \E audience \in UserAudiences : SelectAudience(audience)
  \/ \E p \in UserPriorities : SelectPriority(p)
  \/ \E engine \in UserEngines : ToggleSecondary(engine)
  \/ \E text \in TriggerTexts : TypeTrigger(text)
  \/ Generate
  \/ \E answer \in RecommendAnswers : Settled(answer)

(***************************************************************************)
(* Specifications: the Gateway serving invocations, and the form in use    *)
(***************************************************************************)
vars == <<gwVars, uiVars>>
Init == GwInit /\ UiInit

SpecGateway == Init /\ [][GwNext]_vars
\* The Gateway when every provider call returns or throws: no invocation awaits
\* its fetch forever. (Settle(TransportFailure) is enabled exactly while the fetch
\* is outstanding and any Settle step disables it, so weak fairness on it asks
\* for no more than that the fetch settles, in whichever way.)
SpecGatewayLive == Init /\ [][GwNext]_vars /\ WF_vars(Settle(TransportFailure))

SpecForm == Init /\ [][UiNext]_vars

\* The form when every fetch of /api/recommend settles: it resolves or rejects.
SpecFormLive ==
  Init /\ [][UiNext]_vars /\ WF_vars(\E answer \in RecommendAnswers : Settled(answer))

(***************************************************************************)
(* Properties of the Gateway                                               *)
(***************************************************************************)
Unset(v) == v = Undefined \/ v = JStr(<< >>)
AnyUnset(env) == Unset(env.endpoint) \/ Unset(env.apiKey) \/ Unset(env.deployment)
NonSuccess(status) == status < 200 \/ status > 299

\* s occurs in m as a run of consecutive chunks.
Contains(m, s) == \E i \in 1..(Len(m) - Len(s) + 1) : SubSeq(m, i, i + Len(s) - 1) = s

\* A non-success status with a body { error: <non-empty string> }.
ErrorOutcome(res) ==
  /\ ~IsUndef(res)
  /\ NonSuccess(res.status)
  /\ IsObj(res.body)
  /\ IsStr(Get(res.body, "error"))
  /\ Get(res.body, "error").str # << >>

ErrorText(res) == Get(res.body, "error").str

\* The provider answered with a success status.
AnsweredOk(answer) == answer.kind = "http" /\ ~NonSuccess(answer.status)
AnsweredNotOk(answer) == answer.kind = "http" /\ NonSuccess(answer.status)

\* The message content of an answer whose body is JSON text (undefined otherwise).
ContentOf(answer) ==
  Let(JSONparse(answer.body), LAMBDA d : IF d.ok THEN MessageContent(d.val) ELSE Undefined)

BodyUnparseable(answer) == ~JSONparse(answer.body).ok
ContentAbsent(c) == IsUndef(c) \/ IsNull(c) \/ c = JStr(<< >>)
ContentUnparseable(c) == IsStr(c) /\ c # JStr(<< >>) /\ ~JSONparse(c.str).ok
ContentParses(c) == IsStr(c) /\ c # JStr(<< >>) /\ JSONparse(c.str).ok

KbUnreadable(file) == IsUndef(file) \/ ~JSONparse(file.str).ok

\* C1: when the endpoint, the credential or the deployment identifier is unset or
\* empty, the invocation ends with a non-success status and an error message,
\* having issued no provider call and read no knowledge base, whatever the body.
C1_MissingConfigFailsBeforeAnyCall ==
  (gwPc # "idle" /\ AnyUnset(gwEnv)) =>
    /\ gwPc = "done"
    /\ ErrorOutcome(gwRes)
    /\ gwCalls = << >>
    /\ gwKbReads = 0

C1_Witness ==
  /\ gwPc = "done"
  /\ gwEnv.endpoint \in EndpointValues \ {Undefined, JStr(<< >>)}
  /\ gwEnv.apiKey = JStr(<<"secret-key">>)
  /\ gwEnv.deployment = Undefined
  /\ gwBody = SampleRequest
  /\ gwKbFile = JStr(Stringify(SampleKb))
  /\ gwRes.status = 500
  /\ gwCalls = << >>

\* C2: when the provider answers with a non-success status S, the invocation ends
\* with a non-success status (never 200) and an error message that contains S and
\* the text of the provider's body.
C2_UpstreamErrorCarriesStatusAndBody ==
  (gwPc = "done" /\ AnsweredNotOk(gwAnswer)) =>
    /\ ErrorOutcome(gwRes)
    /\ gwRes.status # 200
    /\ Contains(ErrorText(gwRes), <<ToString(gwAnswer.status)>>)
    /\ Contains(ErrorText(gwRes), gwAnswer.body)

C2_Witness ==
  /\ gwPc = "done"
  /\ gwAnswer = HttpAnswer(429, <<"Service Unavailable">>)
  /\ ErrorText(gwRes) = <<"Azure OpenAI error ", "429", ": ", "Service Unavailable">>

\* C3: when the provider answers with a success status and its body is no JSON, or
\* its message content is absent, empty or no JSON text, the invocation ends with a
\* non-success status and an invalid-response message (never the upstream error's),
\* and never with status 200.
C3_InvalidContentFails ==
  (gwPc = "done" /\ AnsweredOk(gwAnswer)
     /\ (BodyUnparseable(gwAnswer) \/ ContentAbsent(ContentOf(gwAnswer))
           \/ ContentUnparseable(ContentOf(gwAnswer)))) =>
    /\ ErrorOutcome(gwRes)
    /\ gwRes.status # 200
    /\ ErrorText(gwRes) \in {NoContentMessage, SyntaxErrorMessage}

C3_Witness ==
  /\ gwPc = "done"
  /\ gwAnswer.kind = "http"
  /\ gwAnswer.status = 200
  /\ ContentOf(gwAnswer) = JNull
  /\ gwRes.status = 500
  /\ ErrorText(gwRes) = NoContentMessage

\* A failure of one of the kinds the Gateway knows: configuration, knowledge base,
\* transport, upstream status, provider body or content that is absent or no JSON.
InvocationFailed ==
  \/ AnyUnset(gwEnv)
  \/ KbUnreadable(gwKbFile)
  \/ gwAnswer.kind = "neterr"
  \/ AnsweredNotOk(gwAnswer)
  \/ /\ AnsweredOk(gwAnswer)
     /\ \/ BodyUnparseable(gwAnswer)
        \/ ~Truthy(ContentOf(gwAnswer))
        \/ ~JSONparse(ToStr(ContentOf(gwAnswer))).ok

\* Status 200 with the parsed provider content as the body.
SuccessOutcome(res) ==
  /\ ~IsUndef(res)
  /\ res.status = 200
  /\ AnsweredOk(gwAnswer)
  /\ res.body = JSONparse(ToStr(ContentOf(gwAnswer))).val

\* C4: an invocation ends in exactly one of two outcomes, status 200 with the
\* parsed provider content as body, or a non-success status with an error message;
\* every failure ends in the second, and no response is set before the end.
C4_SuccessOrErrorEnvelope ==
  /\ gwPc = "done" =>
       /\ SuccessOutcome(gwRes) \/ ErrorOutcome(gwRes)
       /\ ~(SuccessOutcome(gwRes) /\ ErrorOutcome(gwRes))
       /\ InvocationFailed => ErrorOutcome(gwRes)
       /\ ~InvocationFailed => SuccessOutcome(gwRes)
  /\ gwPc # "done" => IsUndef(gwRes)

C4_Witness ==
  /\ gwPc = "done"
  /\ gwAnswer = TransportFailure
  /\ gwRes.status = 500
  /\ ErrorText(gwRes) = FetchFailedMessage

\* C9: when the provider answers with a success status and its message content is
\* JSON text, the invocation ends with status 200 and a body equal to the value
\* that text denotes: the same members, in the same order, with the same values.
C9_ParsedContentReturnedUnmodified ==
  (gwPc = "done" /\ AnsweredOk(gwAnswer) /\ ContentParses(ContentOf(gwAnswer))) =>
    /\ gwRes.status = 200
    /\ \E v \in ConformantContents \cup NonConformantContents \cup {JNull, JNum(42)} :
         /\ ContentOf(gwAnswer).str = Stringify(v)
         /\ gwRes.body = v

C9_Witness ==
  /\ gwPc = "done"
  /\ gwAnswer.kind = "http"
  /\ ContentOf(gwAnswer) = JStr(GoodText)
  /\ gwRes.status = 200
  /\ gwRes.body = GoodResponse

\* C10: a response that is no instance of the response schema (an undeclared
\* member, a missing required member, a value outside an enumeration) is never
\* passed through with status 200.
C10_NonConformantResponseRejected ==
  (gwPc = "done" /\ gwRes.status = 200) => Validates(ResponseSchema, gwRes.body)

\* C11: an invocation on a valid request that ends with status 200 returns a body
\* whose inputs_echo is the request, member for member.
C11_EchoEqualsRequest ==
  (gwPc = "done" /\ gwRes.status = 200 /\ IsObj(gwBody)
     /\ Validates(InputsEchoSchema, gwBody)) =>
    Get(gwRes.body, "inputs_echo") = gwBody

\* The ranks of a list of assets, in order.
RanksOf(assets) == [i \in 1..Len(assets) |-> Get(assets[i], "rank")]

\* C12: a body returned with status 200 has a recommended_assets list of exactly
\* three entries in which each of the ranks 1, 2 and 3 appears exactly once.
C12_ThreeAssetsRankedOnce ==
  (gwPc = "done" /\ gwRes.status = 200) =>
    /\ IsArr(Get(gwRes.body, "recommended_assets"))
    /\ LET ranks == RanksOf(Get(gwRes.body, "recommended_assets").arr) IN
         /\ Len(ranks) = 3
         /\ \A r \in 1..3 : Cardinality({i \in 1..3 : ranks[i] = JNum(r)}) = 1

\* C13: with the configuration present and the knowledge-base document missing or
\* no JSON, the invocation ends with a non-success status and an error message,
\* having read the document once and issued no provider call.
C13_KbFailureIsInternalError ==
  (gwPc # "idle" /\ ~AnyUnset(gwEnv) /\ KbUnreadable(gwKbFile)) =>
    /\ gwPc = "done"
    /\ ErrorOutcome(gwRes)
    /\ gwRes.status = 500
    /\ gwKbReads = 1
    /\ gwCalls = << >>
    /\ gwAnswer = NoAnswer

C13_Witness ==
  /\ gwPc = "done"
  /\ ~AnyUnset(gwEnv)
  /\ gwKbFile = Undefined
  /\ gwBody = SampleRequest
  /\ Contains(ErrorText(gwRes), <<"ENOENT: no such file or directory, open ">>)
  /\ gwCalls = << >>

\* The invocation passed the configuration check and the knowledge-base load.
PassedChecks == gwPc # "idle" /\ ~AnyUnset(gwEnv) /\ ~KbUnreadable(gwKbFile)

\* C15: an invocation issues at most one provider call; one that passed the
\* configuration check and the knowledge-base load has issued exactly one, sets no
\* response while the call is outstanding, and has still issued exactly one after
\* the call ended, however it ended; any other invocation has issued none.
C15_ExactlyOneProviderCall ==
  /\ Len(gwCalls) <= 1
  /\ PassedChecks => Len(gwCalls) = 1
  /\ (gwPc # "idle" /\ ~PassedChecks) => gwCalls = << >>
  /\ gwPc = "awaiting" => (PassedChecks /\ IsUndef(gwRes) /\ gwAnswer = NoAnswer)
  /\ (gwPc = "done" /\ PassedChecks) => (gwAnswer # NoAnswer /\ gwResSets = 1)

C15_Witness ==
  /\ gwPc = "done"
  /\ gwAnswer = HttpAnswer(500, <<"Service Unavailable">>)
  /\ Len(gwCalls) = 1
  /\ gwCalls[1].method = "POST"
  /\ gwRes.status = 500

\* The request inputs a body stands for: the body itself when it is structured,
\* the value its text denotes when it is a string of JSON text, {} otherwise.
InputsFor(body) ==
  IF IsObj(body) THEN body
  ELSE IF IsStr(body) /\ \E v \in {SampleRequest, OtherRequest, JNull} : body.str = Stringify(v)
    THEN CHOOSE v \in {SampleRequest, OtherRequest, JNull} : body.str = Stringify(v)
  ELSE JObj(<< >>)

\* C16: whatever the body (absent, structured, a string of JSON text, a string
\* that is no JSON, ""), an invocation that passed the configuration check and
\* the knowledge-base load issues the provider call, with the inputs the body
\* stands for in the user message; it ends only once that call has ended.
C16_BodyNeverFailsRequest ==
  PassedChecks =>
    /\ Len(gwCalls) = 1
    /\ Contains(gwCalls[1].messages[2].content,
                <<"REQUEST_INPUTS_JSON:\n">> \o Stringify(InputsFor(gwBody)) \o <<"\n\n">>)
    /\ gwPc = "done" => gwAnswer # NoAnswer

C16_Witness ==
  /\ gwPc = "awaiting"
  /\ gwBody = JStr(<<"{", Quote, "initiative_id">>)
  /\ Contains(gwCalls[1].messages[2].content, <<"REQUEST_INPUTS_JSON:\n", "{", "}", "\n\n">>)


(***************************************************************************)
(* Properties of the Interactive Form                                      *)
(***************************************************************************)
ValidationMessages == {SelectInitiativeMessage, AddTriggerMessage}

\* A text with no character but white space (the empty text included).
Blank(t) == \A i \in 1..Len(t) : t[i] \in WsChunks

\* t is typed with nothing but white space before and after it removed.
TrimmedFrom(t, typed) ==
  /\ t # << >>
  /\ t[1] \notin WsChunks
  /\ t[Len(t)] \notin WsChunks
  /\ \E i \in 0..Len(typed) :
       /\ i + Len(t) <= Len(typed)
       /\ SubSeq(typed, i + 1, i + Len(t)) = t
       /\ Blank(SubSeq(typed, 1, i))
       /\ Blank(SubSeq(typed, i + Len(t) + 1, Len(typed)))

\* The request the last step transmitted, as the receiver reads it.
Sent == JSONparse(transmitted).val

\* C5: a click on the submit control while the initiative is empty or the trigger
\* context is empty or white space transmits nothing, leaves no call outstanding
\* and displays the validation message of the case; and every request transmitted
\* carries the form's non-empty initiative and its trigger context, non-empty and
\* with the surrounding white space removed.
C5_InvalidFormNeverSubmitted ==
  /\ (clicked /\ (initiativeId = << >> \/ Blank(triggerContext))) =>
       /\ transmitted = NoRequest
       /\ inFlight = 0 /\ ~loading
       /\ error = (IF initiativeId = << >> THEN SelectInitiativeMessage
                   ELSE AddTriggerMessage)
  /\ transmitted # NoRequest =>
       /\ clicked
       /\ JSONparse(transmitted).ok
       /\ Get(Sent, "initiative_id") = JStr(initiativeId)
       /\ initiativeId # << >>
       /\ IsStr(Get(Sent, "trigger_context"))
       /\ TrimmedFrom(Get(Sent, "trigger_context").str, triggerContext)

C5_Witness ==
  /\ clicked
  /\ initiativeId # << >>
  /\ triggerContext = <<" ", " ">>
  /\ transmitted = NoRequest
  /\ error = AddTriggerMessage
  /\ lastAnswer # NoAnswer

\* sent holds the members of form other than x, in form's order.
IsFormWithout(sent, form, x) ==
  /\ \A i \in 1..Len(sent) : sent[i] # x
  /\ \E at \in [1..Len(sent) -> 1..Len(form)] :
       /\ \A i \in 1..Len(sent) : form[at[i]] = sent[i]
       /\ \A i, j \in 1..Len(sent) : i < j => at[i] < at[j]
       /\ \A k \in 1..Len(form) : (\A i \in 1..Len(sent) : at[i] # k) => form[k] = x

C7_OneOutstandingSubmission ==
  /\ inFlight <= 1
  /\ loading <=> inFlight = 1
  /\ inFlight = 1 => ~SubmitEnabled(loading)
  /\ transmitted # NoRequest => clicked /\ inFlight = 1

C7_Witness ==
  /\ inFlight = 1
  /\ loading
  /\ ~clicked
  /\ initiativeId # << >>
  /\ ~Blank(triggerContext)
  /\ lastAnswer # NoAnswer

\* A completed call that failed: no answer, a non-success status, or a body that is
\* empty, no JSON, or JSON null.
FailedAnswer(answer) ==
  \/ answer.kind = "neterr"
  \/ /\ answer.kind = "http"
     /\ \/ NonSuccess(answer.status)
        \/ answer.body = << >>
        \/ ~JSONparse(answer.body).ok
        \/ JSONparse(answer.body).val = JNull

\* C8: while the last completed submission is a failed one no result is displayed,
\* whatever was displayed before it; and the step that completes a failed
\* submission displays a failure message (that of the transport, of the response,
\* or of the form for a bad status or an empty response), and leaves no call
\* outstanding and nothing transmitted.
C8_FailureClearsResult ==
  /\ [](FailedAnswer(lastAnswer) => result = JNull)
  /\ [][(inFlight' < inFlight /\ FailedAnswer(lastAnswer')) =>
          /\ result' = JNull
          /\ error' # << >>
          /\ error' \notin ValidationMessages
          /\ lastAnswer'.kind = "neterr" => error' = FailedToFetchMessage
          /\ (lastAnswer'.kind = "http" /\ ~NonSuccess(lastAnswer'.status)) =>
               error' = EmptyResponseMessage
          /\ (lastAnswer'.kind = "http" /\ NonSuccess(lastAnswer'.status)) =>
               \/ error' = lastAnswer'.body
               \/ error' = RequestFailedMessage(lastAnswer'.status)
               \/ /\ JSONparse(lastAnswer'.body).ok
                  /\ error' = ToStr(Get(JSONparse(lastAnswer'.body).val, "error"))
          /\ inFlight' = 0
          /\ ~loading'
          /\ transmitted' = NoRequest]_vars

C8_Witness ==
  /\ lastAnswer = TransportFailure
  /\ priorResult = SmallResult
  /\ result = JNull
  /\ error = FailedToFetchMessage
  /\ inFlight = 0

\* The keys of the initiative table of a loaded knowledge base.
InitiativeKeys(k) ==
  IF IsObj(k) /\ IsObj(Get(k, "initiatives"))
  THEN {Get(k, "initiatives").obj[i].k : i \in 1..Len(Get(k, "initiatives").obj)}
  ELSE {}

\* C14: every request transmitted carries an initiative_id that is a key of the
\* initiative table of the knowledge base the form loaded; while none is loaded,
\* or the table is empty, nothing is transmitted.
C14_InitiativeIsKbKey ==
  transmitted # NoRequest =>
    /\ IsStr(Get(Sent, "initiative_id"))
    /\ Get(Sent, "initiative_id").str \in InitiativeKeys(kb)

C14_Witness ==
  /\ transmitted # NoRequest
  /\ kb = SampleKb
  /\ Get(Sent, "initiative_id") = S("improve_access")
  /\ lastAnswer = NoAnswer

\* The reply is one the form accepts: a success status and a body that is JSON
\* text of a value other than null, false, 0 and "".
Acceptable(answer) ==
  /\ answer.kind = "http"
  /\ ~NonSuccess(answer.status)
  /\ answer.body # << >>
  /\ JSONparse(answer.body).ok
  /\ JSONparse(answer.body).val \notin {JNull, JBool(FALSE), JNum(0), JStr(<< >>)}

\* The error member of a reply's body (undefined when the body is no JSON object).
ErrorField(answer) ==
  IF answer.body # << >> /\ JSONparse(answer.body).ok /\ IsObj(JSONparse(answer.body).val)
  THEN Get(JSONparse(answer.body).val, "error")
  ELSE Undefined

\* C17: the step that completes a call displays the reply as the result exactly
\* when its status is success and its body is JSON text of a usable value, and the
\* error is then left empty. Otherwise no result is displayed and the message is:
\* for a success status, that the response is empty or no JSON; for a non-success
\* status, the body's error member when it is a non-empty string (its string
\* conversion when it is an object), else the body text when there is one, else a
\* message with the status; for a transport failure, the failure's message.
C17_ReplyAcceptedOnlyWhenUsable ==
  [][inFlight' < inFlight =>
       LET a == lastAnswer' IN
       /\ a \in RecommendAnswers
       /\ Acceptable(a) =>
            /\ result' = JSONparse(a.body).val
            /\ error' = << >>
       /\ ~Acceptable(a) => (result' = JNull /\ error' # << >>)
       /\ (a.kind = "http" /\ ~NonSuccess(a.status) /\ ~Acceptable(a)) =>
            error' = EmptyResponseMessage
       /\ (a.kind = "http" /\ NonSuccess(a.status)) =>
            error' = (IF IsStr(ErrorField(a)) /\ ErrorField(a).str # << >>
                        THEN ErrorField(a).str
                      ELSE IF IsObj(ErrorField(a)) THEN <<"[object Object]">>
                      ELSE IF a.body # << >> THEN a.body
                      ELSE <<"Request failed (", ToString(a.status), ")">>)
       /\ a.kind = "neterr" => error' = FailedToFetchMessage]_vars

C17_Witness ==
  /\ lastAnswer = HttpAnswer(500, Stringify(JObj(<<E("error", JStr(NoContentMessage))>>)))
  /\ error = NoContentMessage
  /\ result = JNull
  /\ inFlight = 0
  /\ ~clicked

\* The form as the page first renders it.
FormDefaults ==
  /\ buyingJobId = BuyingJobs[1]
  /\ buyingJobId = "problem_identification"
  /\ Len(BuyingJobs) = 5
  /\ primaryEngine = "finance"
  /\ audienceType = "executive"
  /\ priority = "high"
  /\ secondaryEngines = << >>
  /\ triggerContext = << >>
  /\ initiativeId = << >>

\* The knowledge base a load answer delivers (undefined when it delivers none).
KbDelivered(answer) ==
  IF answer.kind = "http" /\ ~NonSuccess(answer.status) /\ JSONparse(answer.body).ok
  THEN JSONparse(answer.body).val
  ELSE Undefined

\* The message of a load that failed.
LoadError(answer) ==
  IF answer.kind = "neterr" THEN <<"Failed to fetch">>
  ELSE IF NonSuccess(answer.status) THEN <<"Failed to load KB: ", ToString(answer.status)>>
  ELSE IF ~JSONparse(answer.body).ok THEN SyntaxErrorMessage
  ELSE NullInitiativesMessage

\* C18: the page starts with the form's defaults, no knowledge base and nothing
\* displayed; until the load ends the initiative stays empty; and the step that
\* ends the load either delivers a knowledge base with initiatives and selects its
\* first key, or delivers one with an empty table and leaves the initiative empty
\* and the error as it was, or fails, leaves the initiative empty and displays the
\* load's error.
C18_DefaultsAndInitialLoad ==
  /\ FormDefaults
  /\ kb = JNull /\ kbLoading = TRUE
  /\ loading = FALSE /\ error = << >> /\ result = JNull
  /\ [](kbLoading => (initiativeId = << >> /\ kb = JNull))
  /\ [][(kbLoading /\ ~kbLoading') =>
          \E a \in KbAnswers :
            \/ /\ IsObj(KbDelivered(a))
               /\ kb' = KbDelivered(a)
               /\ initiativeId' = (IF InitiativeKeys(kb') = {} THEN << >>
                                   ELSE Get(kb', "initiatives").obj[1].k)
               /\ error' = error
            \/ /\ ~IsObj(KbDelivered(a))
               /\ kb' = JNull
               /\ initiativeId' = << >>
               /\ error' = LoadError(a)
               /\ error' # << >>]_vars

C18_Witness ==
  /\ ~kbLoading
  /\ kb = SampleKb
  /\ initiativeId = <<"reduce_denials">>
  /\ buyingJobId = "problem_identification"
  /\ primaryEngine = "finance"
  /\ audienceType = "executive"
  /\ priority = "high"
  /\ secondaryEngines = << >>
  /\ triggerContext = << >>
  /\ error = << >>
  /\ ~clicked

\* C19: the busy flag is set only by a click that transmits a request; a click
\* that transmits none leaves it clear; the step that completes a call clears it,
\* whatever the call ended in; and, every call completing, a set busy flag is
\* always cleared again, so the submit control is enabled again.
C19_BusyFlagAlwaysCleared ==
  /\ [][(~loading /\ loading') =>
          (clicked' /\ transmitted' # NoRequest /\ inFlight' = inFlight + 1)]_vars
  /\ [][(clicked' /\ transmitted' = NoRequest) => (~loading /\ ~loading')]_vars
  /\ [][inFlight' < inFlight => (~loading' /\ SubmitEnabled(loading'))]_vars
  /\ (loading ~> (~loading /\ SubmitEnabled(loading)))

C19_Witness ==
  /\ ~loading
  /\ inFlight = 0
  /\ lastAnswer = HttpAnswer(502, << >>)
  /\ error = RequestFailedMessage(502)
  /\ ~clicked

\* C20: a displayed error and a displayed result never coexist: while the error
\* is non-empty the result is null.
C20_ErrorAndResultExclusive ==
  error # << >> => result = JNull

C20_Witness ==
  /\ error = AddTriggerMessage
  /\ result = JNull
  /\ lastAnswer = HttpAnswer(200, Stringify(SmallResult))
  /\ priorResult = JNull
  /\ clicked


\* The last step was a click on the submit control that validation blocked.
BlockedClick == clicked /\ transmitted = NoRequest

\* C21: after a click that validation blocked no result is displayed, whatever
\* was displayed before, and the error is the validation message alone; the click
\* starts no call and completes none.
C21_BlockedClickClearsResult ==
  /\ [](BlockedClick =>
          /\ result = JNull
          /\ error \in ValidationMessages
          /\ inFlight = 0
          /\ loading = FALSE)
  /\ [][(clicked' /\ transmitted' = NoRequest) =>
          /\ inFlight' = inFlight
          /\ lastAnswer' = lastAnswer
          /\ priorResult' = priorResult
          /\ UNCHANGED formVars]_vars

C21_Witness ==
  /\ BlockedClick
  /\ lastAnswer = HttpAnswer(200, Stringify(SmallResult))
  /\ priorResult = JNull
  /\ triggerContext = <<" ">>
  /\ result = JNull
  /\ error = AddTriggerMessage
  /\ inFlight = 0

\* C22: an invocation ends with the response set, by one assignment, to a status
\* and a body; none is set while its provider call is outstanding; and, the call
\* returning or throwing, an invocation that awaits it ends.
C22_ResponseSetExactlyOnce ==
  /\ [](gwPc = "done" =>
          /\ ~IsUndef(gwRes)
          /\ gwResSets = 1
          /\ gwRes.status \in {StatusOk, StatusError}
          /\ ~IsUndef(gwRes.body))
  /\ [](gwPc = "awaiting" => (IsUndef(gwRes) /\ gwResSets = 0))
  /\ (gwPc = "awaiting" ~> gwPc = "done")

C22_Witness ==
  /\ gwPc = "done"
  /\ gwAnswer = HttpAnswer(200, Stringify(Completion(JStr(<<"I cannot help with that.">>))))
  /\ gwResSets = 1
  /\ gwRes.status = 500
  /\ ErrorText(gwRes) = SyntaxErrorMessage


=============================================================================
